---- MODULE Spec2Model ----
(***************************************************************************)
(* cogeo-tiler: the request handlers of cogeo_tiler/handler.py as a state  *)
(* machine.  One request is processed at a time (the handlers share no     *)
(* state); the raster library, the colour library and the WMTS template    *)
(* are collaborators whose calls are logged in `calls`.                    *)
(*                                                                         *)
(* Query-string values are Python strings: they are modelled as sequences  *)
(* of one-character strings, and Python's None as the sequence None.       *)
(***************************************************************************)
EXTENDS Integers, Sequences, FiniteSets, TLC

VARIABLES
    route,      \* the handler serving the current request, "none" when idle
    pc,         \* position inside the handler
    req,        \* the request's parameters, as the routing shell passes them
    calls,      \* collaborator calls made so far for this request, in order
    indexes,    \* tile_handler's local `indexes` after normalisation
    nodata,     \* tile_handler's local `nodata` after normalisation
    tilesize,   \* tile_handler's local `tilesize`
    fetched,    \* what the raster collaborator returned: [tile, mask]
    tile,       \* the array bound to `tile` (postprocess writes into it)
    mask,       \* the array bound to `mask`
    ext,        \* tile_handler's local `ext`
    rtile,      \* tile_handler's local `rtile`
    resp        \* the handler's outcome: [status, mime, body]

vars == <<route, pc, req, calls, indexes, nodata, tilesize, fetched, tile,
          mask, ext, rtile, resp>>

(***************************************************************************)
(* Bounds of the model.                                                    *)
(***************************************************************************)
MaxScale == 2       \* scales 0..MaxScale are requested
MaxBands == 2       \* a fetched tile has 1..MaxBands bands
NPix == 2           \* pixels per band (the tilesize x tilesize extent)

(***************************************************************************)
(* Python values.                                                          *)
(***************************************************************************)
None == <<"<None>">>
NoExt == "<None>"

\* bool(s) for an optional string: None and "" are falsy
Truthy(s) == s # None /\ s # <<>>

Digits == {"0", "1", "2", "3", "4", "5", "6", "7", "8", "9"}

DigitVal(c) ==
    CASE c = "0" -> 0 [] c = "1" -> 1 [] c = "2" -> 2 [] c = "3" -> 3
      [] c = "4" -> 4 [] c = "5" -> 5 [] c = "6" -> 6 [] c = "7" -> 7
      [] c = "8" -> 8 [] c = "9" -> 9

\* int(s) for a string of decimal digits
RECURSIVE DigitsToInt(_)
DigitsToInt(s) ==
    IF s = <<>> THEN 0
    ELSE 10 * DigitsToInt(SubSeq(s, 1, Len(s) - 1)) + DigitVal(s[Len(s)])

\* tuple(int(s) for s in re.findall(r"\d+", text)): the maximal runs of
\* digits, left to right
RECURSIVE FindAllInts(_, _, _)
FindAllInts(text, run, acc) ==
    IF text = <<>>
    THEN IF run = <<>> THEN acc ELSE Append(acc, DigitsToInt(run))
    ELSE IF Head(text) \in Digits
         THEN FindAllInts(Tail(text), Append(run, Head(text)), acc)
         ELSE FindAllInts(Tail(text), <<>>,
                          IF run = <<>> THEN acc
                          ELSE Append(acc, DigitsToInt(run)))

IndexesTuple(text) == FindAllInts(text, <<>>, <<>>)

(***************************************************************************)
(* Arrays.  A tile is [dtype, bands]: bands is a sequence of bands, each a *)
(* sequence of NPix pixel values.  A mask is a sequence of NPix entries,   *)
(* 0 for an invalid pixel and 255 for a valid one.                         *)
(***************************************************************************)
MaskVals == {0, 255}

Masks == [1..NPix -> MaskVals]

NoTile == [dtype |-> "none", bands |-> <<>>]
NoMask == <<>>
NoFetch == [tile |-> NoTile, mask |-> NoMask]

\* mask.all()
MaskAll(m) == \A i \in 1..Len(m) : m[i] # 0

(***************************************************************************)
(* _postprocess (handler.py) and postprocess (utils.py): the same body.    *)
(***************************************************************************)
\* text.split(sep)
RECURSIVE SplitOn(_, _, _, _)
SplitOn(text, sep, cur, acc) ==
    IF text = <<>> THEN Append(acc, cur)
    ELSE IF Head(text) = sep
         THEN SplitOn(Tail(text), sep, <<>>, Append(acc, cur))
         ELSE SplitOn(Tail(text), sep, Append(cur, Head(text)), acc)

\* the strings float() accepts, among those requested: an optional sign and
\* decimal digits
IsNumber(s) ==
    LET d == IF s # <<>> /\ Head(s) = "-" THEN Tail(s) ELSE s
    IN  d # <<>> /\ \A i \in 1..Len(d) : d[i] \in Digits

\* float(s)
ToFloat(s) ==
    IF Head(s) = "-" THEN 0 - DigitsToInt(Tail(s)) ELSE DigitsToInt(s)

\* list(_chunks(l, 2)): successive chunks of two, the last one shorter when
\* the length is odd
RECURSIVE Chunks2(_)
Chunks2(l) ==
    IF l = <<>> THEN <<>>
    ELSE IF Len(l) = 1 THEN <<l>>
    ELSE <<SubSeq(l, 1, 2)>> \o Chunks2(SubSeq(l, 3, Len(l)))

\* the last chunk, not the first, for every band
RescaleArrLastPair(rescale, nbands) ==
    LET words == SplitOn(rescale, ",", <<>>, <<>>)
        nums == [i \in 1..Len(words) |-> ToFloat(words[i])]
        chunks == Chunks2(nums)
    IN  IF Len(chunks) # nbands
        THEN [b \in 1..nbands |-> chunks[Len(chunks)]]
        ELSE chunks

\* rescale_arr as the band loop reads it: one chunk per band when the
\* number of chunks equals the number of bands, the first chunk for every
\* band otherwise
RescaleArr(rescale, nbands) ==
    LET words == SplitOn(rescale, ",", <<>>, <<>>)
        nums == [i \in 1..Len(words) |-> ToFloat(words[i])]
        chunks == Chunks2(nums)
    IN  IF Len(chunks) # nbands
        THEN [b \in 1..nbands |-> chunks[1]]
        ELSE chunks

\* the rescale string makes float() or the unpacking of in_range raise, or
\* divides by a zero range
RescaleRaises(rescale, nbands) ==
    LET words == SplitOn(rescale, ",", <<>>, <<>>)
    IN  \/ \E i \in 1..Len(words) : ~IsNumber(words[i])
        \/ \E b \in 1..nbands :
               \/ Len(RescaleArr(rescale, nbands)[b]) # 2
               \/ RescaleArr(rescale, nbands)[b][1] = RescaleArr(rescale, nbands)[b][2]

\* numpy.clip(v, lo, hi) == minimum(maximum(v, lo), hi)
Clip(v, lo, hi) ==
    LET a == IF v < lo THEN lo ELSE v
    IN  IF a > hi THEN hi ELSE a

\* out_range left at linear_rescale's default, (1, 255)
LinearRescaleDefaultOut(v, imin, imax) ==
    LET num == (Clip(v, imin, imax) - imin) * 254
        den == imax - imin
    IN  (IF den > 0 THEN num \div den ELSE (0 - num) \div (0 - den)) + 1

\* linear_rescale(v, in_range=(imin, imax), out_range=[0, 255]) followed by
\* the truncation of the store into the integer tile
LinearRescale(v, imin, imax) ==
    LET num == (Clip(v, imin, imax) - imin) * 255
        den == imax - imin
    IN  IF den > 0 THEN num \div den ELSE (0 - num) \div (0 - den)

\* one turn of the band loop:
\* numpy.where(mask, linear_rescale(tile[bdx], in_range), 0)
RescaleBand(band, m, in_range) ==
    [i \in 1..Len(band) |->
        IF m[i] # 0
        THEN LinearRescale(band[i], in_range[1], in_range[2])
        ELSE 0]

\* the band loop
RescaleBands(bands, m, arr) ==
    [b \in 1..Len(bands) |-> RescaleBand(bands[b], m, arr[b])]

\* tile.astype(numpy.uint8)
AsUint8(bands) ==
    [b \in 1..Len(bands) |-> [i \in 1..Len(bands[b]) |-> bands[b][i] % 256]]

\* tile[tile < 0] = 0
ClampNegative(bands) ==
    [b \in 1..Len(bands) |->
        [i \in 1..Len(bands[b]) |->
            IF bands[b][i] < 0 THEN 0 ELSE bands[b][i]]]

DtypeMax(dtype) == IF dtype = "uint8" THEN 255 ELSE 32767

\* One colour operation on one pixel, on the 0..255 scale.  The operations
\* belong to the colour library; "G" brightens and "S" adds contrast, and
\* they do not commute.
ApplyOp(op, v) ==
    IF op = "G" THEN (v + 255) \div 2 ELSE (v * v) \div 255

\* scale_dtype(ops(to_math_type(tile)), numpy.uint8)
ColorStep(op, t) ==
    [dtype |-> "uint8",
     bands |-> [b \in 1..Len(t.bands) |->
                  [i \in 1..Len(t.bands[b]) |->
                      ApplyOp(op, (t.bands[b][i] * 255) \div DtypeMax(t.dtype))]]]

\* for ops in parse_operations(color_formula): tile = ...
RECURSIVE ColorLoop(_, _)
ColorLoop(ops, t) ==
    IF ops = <<>> THEN t ELSE ColorLoop(Tail(ops), ColorStep(Head(ops), t))

\* the rescale stage: the array it leaves in the caller's tile (the band
\* loop stores into it) ...
RescaledInPlace(t, m, rescale) ==
    [dtype |-> t.dtype,
     bands |-> RescaleBands(t.bands, m, RescaleArr(rescale, Len(t.bands)))]

\* ... and the new uint8 array bound to the local name
Rescaled(t, m, rescale) ==
    [dtype |-> "uint8", bands |-> AsUint8(RescaledInPlace(t, m, rescale).bands)]

\* the colour stage
Colored(t, color_formula) ==
    ColorLoop(color_formula, [dtype |-> t.dtype, bands |-> ClampNegative(t.bands)])

\* the value _postprocess returns
Postprocess(t, m, rescale, color_formula) ==
    LET a == IF Truthy(rescale) THEN Rescaled(t, m, rescale) ELSE t
    IN  IF Truthy(color_formula) THEN Colored(a, color_formula) ELSE a

\* what the array passed as `tile` holds after the call
PostprocessInPlace(t, m, rescale, color_formula) ==
    IF Truthy(rescale) THEN RescaledInPlace(t, m, rescale)
    ELSE IF Truthy(color_formula)
         THEN [dtype |-> t.dtype, bands |-> ClampNegative(t.bands)]
         ELSE t

PostprocessRaises(t, rescale) ==
    Truthy(rescale) /\ RescaleRaises(rescale, Len(t.bands))

(***************************************************************************)
(* common.py: the extension tables.  A MIME type "a/b" is the pair         *)
(* <<"a", "b">>, so that f"image/{ext}" is <<"image", ext>>.               *)
(***************************************************************************)
drivers ==
    [jpg |-> "JPEG", png |-> "PNG", pngraw |-> "PNG", tif |-> "GTiff",
     webp |-> "WEBP"]

mimetype ==
    [png |-> <<"image", "png">>, pngraw |-> <<"image", "png">>,
     npy |-> <<"application", "x-binary">>, tif |-> <<"image", "tiff">>,
     jpg |-> <<"image", "jpg">>, webp |-> <<"image", "webp">>]

\* The image collaborator lower-cases img_format and the raster library
\* looks drivers up without regard to case.
DriverKey(d) ==
    CASE d = "JPEG" -> "jpeg" [] d = "PNG" -> "png" [] d = "WEBP" -> "webp"
      [] d = "GTiff" -> "gtiff" [] OTHER -> d

\* the drivers the image collaborator is known to write
KnownDrivers == {"jpeg", "png", "webp", "gtiff"}

(***************************************************************************)
(* numpy.save(sio, (rtile, mask)) and numpy.load: the pair is stored as    *)
(* an object array of its two members, each with its dtype, its shape and  *)
(* its values in row-major order.                                          *)
(***************************************************************************)
RECURSIVE Flatten(_)
Flatten(rows) ==
    IF rows = <<>> THEN <<>> ELSE Head(rows) \o Flatten(Tail(rows))

\* one member of the tuple: rank, shape, values
SaveTile(t) ==
    <<2, Len(t.bands), IF t.bands = <<>> THEN 0 ELSE Len(t.bands[1])>>
        \o Flatten(t.bands)

SaveMask(m) == <<1, Len(m)>> \o m

\* the mask stored as booleans
NpySaveBoolMask(t, m) ==
    [dtypes |-> <<t.dtype, "bool">>,
     data |-> SaveTile(t)
              \o SaveMask([i \in 1..Len(m) |-> IF m[i] # 0 THEN 1 ELSE 0])]

\* numpy.save(sio, (rtile, mask)); sio.getvalue()
NpySave(t, m) ==
    [dtypes |-> <<t.dtype, "uint8">>, data |-> SaveTile(t) \o SaveMask(m)]

\* numpy.load(BytesIO(body), allow_pickle=True): reads the members back
NpyLoad(payload) ==
    LET d == payload.data
        nb == d[2]
        np == d[3]
        rest == SubSeq(d, 4 + nb * np, Len(d))
    IN  [tile |-> [dtype |-> payload.dtypes[1],
                   bands |-> [b \in 1..nb |->
                                SubSeq(d, 4 + (b - 1) * np, 3 + b * np)]],
         mask |-> SubSeq(rest, 3, 2 + rest[2])]

(***************************************************************************)
(* Responses.                                                              *)
(***************************************************************************)
NoResp == [status |-> "NONE", mime |-> <<>>, body |-> [kind |-> "none"]]

\* a raised exception, as the routing shell reports it
ErrorResp(msg) ==
    [status |-> "ERROR", mime |-> <<"application", "json">>,
     body |-> [kind |-> "error", errorMessage |-> msg]]

(***************************************************************************)
(* urllib.parse.urlencode.                                                 *)
(***************************************************************************)
\* no quoting at all
QuoteCharRaw(c) == <<c>>

\* quote_plus on one character: letters, digits and "_.-~" are kept, a
\* space becomes "+", anything else its %XX escape
QuoteChar(c) ==
    CASE c = " " -> <<"+">>
      [] c = "&" -> <<"%", "2", "6">>
      [] c = "=" -> <<"%", "3", "D">>
      [] c = "," -> <<"%", "2", "C">>
      [] c = "%" -> <<"%", "2", "5">>
      [] c = "+" -> <<"%", "2", "B">>
      [] c = "/" -> <<"%", "2", "F">>
      [] c = ";" -> <<"%", "3", "B">>
      [] OTHER -> <<c>>

RECURSIVE QuotePlus(_)
QuotePlus(text) ==
    IF text = <<>> THEN <<>> ELSE QuoteChar(Head(text)) \o QuotePlus(Tail(text))

\* str(v) for a query value: None prints as "None"
StrOf(v) == IF v = None THEN <<"N", "o", "n", "e">> ELSE v

\* urllib.parse.urlencode(pairs): quote_plus(k) = quote_plus(v), joined
\* with "&"
RECURSIVE UrlEncode(_)
UrlEncode(pairs) ==
    IF pairs = <<>> THEN <<>>
    ELSE QuotePlus(StrOf(pairs[1][1])) \o <<"=">> \o QuotePlus(StrOf(pairs[1][2]))
         \o (IF Len(pairs) = 1 THEN <<>> ELSE <<"&">> \o UrlEncode(Tail(pairs)))

\* query_string.replace("&", "&amp;")
RECURSIVE XmlEscapeAmp(_)
XmlEscapeAmp(text) ==
    IF text = <<>> THEN <<>>
    ELSE (IF Head(text) = "&" THEN <<"&", "a", "m", "p", ";">> ELSE <<Head(text)>>)
         \o XmlEscapeAmp(Tail(text))

\* str(n) for n >= 0
RECURSIVE IntToStr(_)
IntToStr(n) ==
    LET d == CHOOSE c \in Digits : DigitVal(c) = n % 10
    IN  IF n < 10 THEN <<d>> ELSE IntToStr(n \div 10) \o <<d>>

(***************************************************************************)
(* The requests that are made.                                             *)
(***************************************************************************)
CogUrl == <<"c", "o", "g">>

TileExts ==
    {NoExt, "jpg", "png", "pngraw", "webp", "tif", "npy", "jpeg", "bmp"}
Urls == {None, <<>>, CogUrl}
IndexesParams == {None, <<>>, <<"2", ",", "1", ",", "1">>}
ExprParams == {None, <<>>, <<"b", "1">>}
NodataParams == {None, <<"n", "a", "n">>}
RescaleParams == {None, <<"0", ",", "1", "0">>}
ColorFormulas == {None, <<"G">>}
ColorMaps == {None, <<"c", "m">>}

\* what the raster collaborator can return: the source raster's values
\* differ from pixel to pixel and from band to band
TileSeeds == {-2, 4}

FetchedTiles ==
    {[dtype |-> "int16",
      bands |-> [b \in 1..nb |->
                   [i \in 1..NPix |-> seed + 3 * (i - 1) + (b - 1)]]] :
        nb \in 1..MaxBands, seed \in TileSeeds}

NoIndexes == [given |-> FALSE, v |-> <<>>]
NoNodata == [kind |-> "none", v |-> 0]

Idle ==
    /\ route = "none"
    /\ pc = "idle"
    /\ req = [none |-> TRUE]
    /\ calls = <<>>
    /\ indexes = NoIndexes
    /\ nodata = NoNodata
    /\ tilesize = 0
    /\ fetched = NoFetch
    /\ tile = NoTile
    /\ mask = NoMask
    /\ ext = NoExt
    /\ rtile = NoTile
    /\ resp = NoResp

Init == Idle

\* raise TilerError(msg) / an exception leaving the handler
Raise(msg) ==
    /\ resp' = ErrorResp(msg)
    /\ pc' = "done"

(***************************************************************************)
(* tile_handler                                                            *)
(***************************************************************************)
\* The four tile routes bind scale (default 1, any <int:scale>) and ext
\* (default None); the query string binds the rest.
TileRequest ==
    /\ pc = "idle"
    /\ \E sc \in 0..MaxScale, e \in TileExts, u \in Urls,
          ix \in IndexesParams, ex \in ExprParams, nd \in NodataParams,
          rs \in RescaleParams, cf \in ColorFormulas, cm \in ColorMaps :
          /\ req' = [scale |-> sc, ext |-> e, url |-> u, indexes |-> ix,
                     expr |-> ex, nodata |-> nd, rescale |-> rs,
                     color_formula |-> cf, color_map |-> cm]
          /\ ext' = e
    /\ route' = "tile"
    /\ pc' = "validate"
    /\ UNCHANGED <<calls, indexes, nodata, tilesize, fetched, tile, mask,
                   rtile, resp>>

\* indexes = tuple(int(s) for s in re.findall(r"\d+", indexes))
NormIndexes(ix) ==
    IF ix = None THEN NoIndexes ELSE [given |-> TRUE, v |-> IndexesTuple(ix)]

\* nodata = numpy.nan if nodata == "nan" else float(nodata)
NormNodata(nd) ==
    IF nd = None THEN NoNodata
    ELSE IF nd = <<"n", "a", "n">> THEN [kind |-> "nan", v |-> 0]
    ELSE [kind |-> "num", v |-> ToFloat(nd)]

\* tilesize = scale * 256
TileSize(scale) == scale * 256

\* the conflict check left out
SelectorConflictSkipped(ix, ex) == FALSE

\* if indexes and expr
SelectorConflict(ix, ex) == Truthy(ix) /\ Truthy(ex)

\* "if url is None": an empty url passes
UrlMissingNoneOnly(u) == u = None

\* if not url
UrlMissing(u) == ~Truthy(u)

\* lines 293-305: the two checks, then the normalisation
TileValidate ==
    /\ route = "tile" /\ pc = "validate"
    /\ IF SelectorConflict(req.indexes, req.expr)
       THEN /\ Raise("Cannot pass indexes and expression")
            /\ UNCHANGED <<indexes, nodata, tilesize>>
       ELSE IF UrlMissing(req.url)
       THEN /\ Raise("Missing 'url' parameter")
            /\ UNCHANGED <<indexes, nodata, tilesize>>
       ELSE /\ indexes' = NormIndexes(req.indexes)
            /\ nodata' = NormNodata(req.nodata)
            /\ tilesize' = TileSize(req.scale)
            /\ pc' = "fetch"
            /\ UNCHANGED resp
    /\ UNCHANGED <<route, req, calls, fetched, tile, mask, ext, rtile>>

\* the call the handler makes: expression(...) when expr is not None,
\* cogTiler.tile(...) otherwise
FetchCall ==
    IF req.expr # None
    THEN [fn |-> "expression", url |-> req.url, expr |-> req.expr,
          indexes |-> NoIndexes, tilesize |-> tilesize, nodata |-> nodata,
          kw |-> {"expr", "tilesize", "nodata", "resampling_method"}]
    ELSE [fn |-> "tile", url |-> req.url, expr |-> None,
          indexes |-> indexes, tilesize |-> tilesize, nodata |-> nodata,
          kw |-> {"indexes", "tilesize", "nodata", "resampling_method"}]

\* lines 307-329: the fetch; the collaborator returns a tile and its mask,
\* or raises
TileFetch ==
    /\ route = "tile" /\ pc = "fetch"
    /\ calls' = Append(calls, FetchCall)
    /\ \/ \E t \in FetchedTiles, m \in Masks :
            /\ fetched' = [tile |-> t, mask |-> m]
            /\ tile' = t
            /\ mask' = m
            /\ pc' = "ext"
            /\ UNCHANGED resp
       \/ /\ Raise("tile fetch failed")
          /\ UNCHANGED <<fetched, tile, mask>>
    /\ UNCHANGED <<route, req, indexes, nodata, tilesize, ext, rtile>>

\* mask.any() in place of mask.all()
DefaultExtAny(m) == IF \E i \in 1..Len(m) : m[i] # 0 THEN "jpg" ELSE "png"

\* ext = "jpg" if mask.all() else "png"
DefaultExt(m) == IF MaskAll(m) THEN "jpg" ELSE "png"

\* lines 331-332
TileDefaultExt ==
    /\ route = "tile" /\ pc = "ext"
    /\ ext' = IF ext = NoExt THEN DefaultExt(mask) ELSE ext
    /\ pc' = "post"
    /\ UNCHANGED <<route, req, calls, indexes, nodata, tilesize, fetched,
                   tile, mask, rtile, resp>>

\* line 334
TilePostprocess ==
    /\ route = "tile" /\ pc = "post"
    /\ IF PostprocessRaises(tile, req.rescale)
       THEN /\ Raise("postprocess failed")
            /\ UNCHANGED <<tile, rtile>>
       ELSE /\ rtile' = Postprocess(tile, mask, req.rescale, req.color_formula)
            /\ tile' = PostprocessInPlace(tile, mask, req.rescale,
                                          req.color_formula)
            /\ pc' = "encode"
            /\ UNCHANGED resp
    /\ UNCHANGED <<route, req, calls, indexes, nodata, tilesize, fetched,
                   mask, ext>>

\* driver = "jpeg" if ext == "jpg" else ext; "GTiff" for tif
EncodeDriver(e) ==
    IF e = "tif" THEN "GTiff" ELSE IF e = "jpg" THEN "jpeg" ELSE e

\* ext = "tiff" for tif
EncodeExt(e) == IF e = "tif" THEN "tiff" ELSE e

\* options = img_profiles.get(driver, {}), replaced for tif by the dtype,
\* the crs and the transform of the tile
EncodeOptions(e) ==
    IF e = "tif" THEN "dtype,crs,transform"
    ELSE IF EncodeDriver(e) \in {"jpeg", "png", "pngraw", "webp"}
    THEN EncodeDriver(e)
    ELSE "{}"

\* the MIME type of the response tuple
EncodeMime(e) ==
    IF e = "npy" THEN <<"application", "x-binary">>
    ELSE <<"image", EncodeExt(e)>>

\* the calls of lines 336-364: the colormap lookup when color_map is given,
\* array_to_image unless the extension is npy
EncodeCalls(e, cm, t, m) ==
    (IF Truthy(cm) THEN <<[fn |-> "get_colormap", name |-> cm]>> ELSE <<>>)
    \o (IF e = "npy" THEN <<>>
        ELSE <<[fn |-> "array_to_image", tile |-> t, mask |-> m,
                img_format |-> EncodeDriver(e), color_map |-> cm,
                options |-> EncodeOptions(e)]>>)

\* the body of the response tuple
EncodeBody(e, cm, t, m) ==
    IF e = "npy"
    THEN [kind |-> "npy", payload |-> NpySave(t, m)]
    ELSE [kind |-> "image", img_format |-> EncodeDriver(e), tile |-> t,
          mask |-> m, color_map |-> cm]

\* lines 336-364; the image collaborator may refuse a driver it does not
\* know
TileEncode ==
    /\ route = "tile" /\ pc = "encode"
    /\ calls' = calls \o EncodeCalls(ext, req.color_map, rtile, mask)
    /\ ext' = EncodeExt(ext)
    /\ \/ /\ resp' = [status |-> "OK", mime |-> EncodeMime(ext),
                      body |-> EncodeBody(ext, req.color_map, rtile, mask)]
          /\ pc' = "done"
       \/ /\ ext # "npy"
          /\ DriverKey(EncodeDriver(ext)) \notin KnownDrivers
          /\ Raise("image encoding failed")
    /\ UNCHANGED <<route, req, indexes, nodata, tilesize, fetched, tile,
                   mask, rtile>>

(***************************************************************************)
(* Extra query parameters (the kwargs): an ordered list of (name, value)  *)
(* pairs with distinct names.                                              *)
(***************************************************************************)
MaxParams == 2      \* at most MaxParams extra query parameters

K_SERVICE == <<"S", "E", "R", "V", "I", "C", "E">>
K_REQUEST == <<"R", "E", "Q", "U", "E", "S", "T">>
K_url == <<"u", "r", "l">>

ExtraNames == {K_SERVICE, K_REQUEST, <<"r", "s">>, <<"a", "&", "b">>}
ExtraValues == {<<"1">>, <<"x", "&", "y">>, <<"-", "1", ",", "1", " ", "=">>}
ExtraPairs == ExtraNames \X ExtraValues

NamesOf(pairs) == {pairs[i][1] : i \in 1..Len(pairs)}

RECURSIVE ParamLists(_)
ParamLists(n) ==
    IF n = 0 THEN {<<>>}
    ELSE LET prev == ParamLists(n - 1)
         IN  prev \cup
             {Append(lp[1], lp[2]) :
                 lp \in {x \in prev \X ExtraPairs :
                            Len(x[1]) = n - 1 /\ x[2][1] \notin NamesOf(x[1])}}

UrlAmp == <<"/", "c", "&", "d">>
PageUrls == {None, CogUrl, UrlAmp}
TileScales == {None, <<"2">>, <<"0", "2">>}
TileFormats == {None, <<>>, <<"j", "p", "g">>}

\* app.host
AppHost == <<"h">>

\* if tile_scale is not None and isinstance(tile_scale, str):
\*     tile_scale = int(tile_scale); the default is the int 1
NormTileScale(ts) == IF ts = None THEN 1 ELSE DigitsToInt(ts)

\* dict.pop(name, None) on the ordered kwargs
RECURSIVE Pop(_, _)
Pop(pairs, name) ==
    IF pairs = <<>> THEN <<>>
    ELSE IF pairs[1][1] = name THEN Pop(Tail(pairs), name)
    ELSE <<pairs[1]>> \o Pop(Tail(pairs), name)

\* kwargs.update(dict(url=url)); url is never a key of kwargs
WithUrl(pairs, u) == Append(pairs, <<K_url, u>>)

(***************************************************************************)
(* tilejson_handler                                                        *)
(***************************************************************************)
TilejsonRequest ==
    /\ pc = "idle"
    /\ \E u \in PageUrls, ts \in TileScales, tf \in TileFormats,
          kw \in ParamLists(MaxParams) :
          req' = [url |-> u, tile_scale |-> ts, tile_format |-> tf,
                  kwargs |-> kw]
    /\ route' = "tilejson"
    /\ pc' = "handle"
    /\ UNCHANGED <<calls, indexes, nodata, tilesize, fetched, tile, mask,
                   ext, rtile, resp>>

\* qs = urllib.parse.urlencode(list(kwargs.items())) after the update
TilejsonQs(kw, u) == UrlEncode(WithUrl(kw, u))

\* the two f-strings of lines 164-167
TilejsonUrl(host, scale, tf, qs) ==
    host \o <<"/", "{", "z", "}", "/", "{", "x", "}", "/", "{", "y", "}", "@">>
         \o IntToStr(scale) \o <<"x">>
         \o (IF Truthy(tf) THEN <<".">> \o tf ELSE <<>>)
         \o <<"?">> \o qs

\* lines 159-188; url is a required argument; opening the raster may fail
TilejsonHandle ==
    /\ route = "tilejson" /\ pc = "handle"
    /\ IF req.url = None
       THEN /\ Raise("missing url argument")
            /\ UNCHANGED calls
       ELSE /\ calls' = Append(calls, [fn |-> "open", url |-> req.url])
            /\ \/ /\ resp' = [status |-> "OK",
                              mime |-> <<"application", "json">>,
                              body |-> [kind |-> "tilejson",
                                        name |-> req.url,
                                        tiles |-> <<TilejsonUrl(AppHost,
                                            NormTileScale(req.tile_scale),
                                            req.tile_format,
                                            TilejsonQs(req.kwargs, req.url))>>]]
                  /\ pc' = "done"
               \/ Raise("raster cannot be opened")
    /\ UNCHANGED <<route, req, indexes, nodata, tilesize, fetched, tile,
                   mask, ext, rtile>>

(***************************************************************************)
(* wmts_handler                                                            *)
(***************************************************************************)
WmtsRequest ==
    /\ pc = "idle"
    /\ \E u \in PageUrls, ts \in TileScales, tf \in TileFormats,
          kw \in ParamLists(MaxParams) :
          req' = [url |-> u, tile_scale |-> ts, tile_format |-> tf,
                  kwargs |-> kw]
    /\ route' = "wmts"
    /\ pc' = "handle"
    /\ UNCHANGED <<calls, indexes, nodata, tilesize, fetched, tile, mask,
                   ext, rtile, resp>>

\* only SERVICE popped
WmtsKwargsServiceOnly(kw) == Pop(kw, K_SERVICE)

\* kwargs.pop("SERVICE", None); kwargs.pop("REQUEST", None)
WmtsKwargs(kw) == Pop(Pop(kw, K_SERVICE), K_REQUEST)

\* lines 214-218
WmtsQueryString(kw, u) == XmlEscapeAmp(UrlEncode(WithUrl(WmtsKwargs(kw), u)))

\* tile_format: str = "png"
WmtsFormat(tf) == IF tf = None THEN <<"p", "n", "g">> ELSE tf

\* lines 207-242; rasterio.open(None) raises, and any open may fail
WmtsHandle ==
    /\ route = "wmts" /\ pc = "handle"
    /\ \/ /\ req.url # None
          /\ calls' = calls \o
                <<[fn |-> "open", url |-> req.url],
                  [fn |-> "wmts_template", host |-> AppHost,
                   query_string |-> WmtsQueryString(req.kwargs, req.url),
                   tile_scale |-> NormTileScale(req.tile_scale),
                   tile_format |-> WmtsFormat(req.tile_format)]>>
          /\ resp' = [status |-> "OK", mime |-> <<"application", "xml">>,
                      body |-> [kind |-> "xml",
                                query_string |->
                                    WmtsQueryString(req.kwargs, req.url)]]
          /\ pc' = "done"
       \/ /\ calls' = Append(calls, [fn |-> "open", url |-> req.url])
          /\ Raise("raster cannot be opened")
    /\ UNCHANGED <<route, req, indexes, nodata, tilesize, fetched, tile,
                   mask, ext, rtile>>

(***************************************************************************)
(* point_handler                                                           *)
(***************************************************************************)
CoordMax == 3       \* raster bounds and transformed coordinates: 0..CoordMax

Coords == 0..CoordMax

\* src_dst.bounds: (left, bottom, right, top)
RasterBounds ==
    {b \in [left : Coords, bottom : Coords, right : Coords, top : Coords] :
        b.left < b.right /\ b.bottom < b.top}

LonLats == {<<"1">>, <<"-", "2">>}
PointIndexes == {None, <<"1", ",", "1">>}

\* src_dst.indexes
SrcIndexes == <<1>>

\* the value the raster holds at (x, y) in a band
SampleAt(x, y, band) == x + y + band

PointRequest ==
    /\ pc = "idle"
    /\ \E u \in {CogUrl}, lon \in LonLats, lat \in LonLats,
          ix \in PointIndexes :
          req' = [url |-> u, lon |-> lon, lat |-> lat, indexes |-> ix]
    /\ route' = "point"
    /\ pc' = "handle"
    /\ UNCHANGED <<calls, indexes, nodata, tilesize, fetched, tile, mask,
                   ext, rtile, resp>>

\* <= in place of <
InsideBoundsClosed(b, x, y) ==
    (b.left <= x /\ x <= b.right) /\ (b.bottom <= y /\ y <= b.top)

\* lines 392-395: the point is strictly inside the bounds on both axes
InsideBounds(b, x, y) ==
    (b.left < x /\ x < b.right) /\ (b.bottom < y /\ y < b.top)

\* indexes = indexes if indexes is not None else src_dst.indexes
PointBands(ix) == IF ix.given THEN ix.v ELSE SrcIndexes

\* lines 379-404; the raster is opened, the point transformed into the
\* raster's coordinate system, tested against the bounds and sampled
PointHandle ==
    /\ route = "point" /\ pc = "handle"
    /\ indexes' = NormIndexes(req.indexes)
    /\ \/ /\ calls' = Append(calls, [fn |-> "open", url |-> req.url])
          /\ Raise("raster cannot be opened")
          /\ UNCHANGED fetched
       \/ \E b \in RasterBounds, x \in Coords, y \in Coords :
            /\ fetched' = [bounds |-> b, x |-> x, y |-> y]
            /\ IF ~InsideBounds(b, x, y)
               THEN /\ calls' = calls \o
                          <<[fn |-> "open", url |-> req.url],
                            [fn |-> "transform", lon |-> ToFloat(req.lon),
                             lat |-> ToFloat(req.lat)]>>
                    /\ Raise("Point is outside the raster bounds")
               ELSE /\ calls' = calls \o
                          <<[fn |-> "open", url |-> req.url],
                            [fn |-> "transform", lon |-> ToFloat(req.lon),
                             lat |-> ToFloat(req.lat)],
                            [fn |-> "sample", x |-> x, y |-> y,
                             indexes |-> PointBands(indexes')]>>
                    /\ resp' = [status |-> "OK",
                                mime |-> <<"application", "json">>,
                                body |-> [kind |-> "point",
                                          coordinates |-> <<ToFloat(req.lon),
                                                            ToFloat(req.lat)>>,
                                          values |->
                                            [k \in 1..Len(PointBands(indexes')) |->
                                               SampleAt(x, y,
                                                  PointBands(indexes')[k])]]]
                    /\ pc' = "done"
    /\ UNCHANGED <<route, req, nodata, tilesize, tile, mask, ext, rtile>>

(***************************************************************************)
(* metadata_handler                                                        *)
(***************************************************************************)
DefaultPmin == 2
DefaultPmax == 98
DefaultMaxSize == 1024
DefaultHistogramBins == 20

Optional(text) == {None, text}

\* what the collaborator's metadata call can return
MetadataInfos == {"info-a", "info-b"}

MetadataRequest ==
    /\ pc = "idle"
    /\ \E pmin \in Optional(<<"5">>), pmax \in Optional(<<"9", "5">>),
          nd \in Optional(<<"-", "9">>), ix \in Optional(<<"1">>),
          ov \in Optional(<<"1">>), ms \in Optional(<<"5", "1", "2">>),
          hb \in Optional(<<"1", "0">>), hr \in Optional(<<"1", ",", "9">>) :
          req' = [url |-> CogUrl, pmin |-> pmin, pmax |-> pmax,
                  nodata |-> nd, indexes |-> ix, overview_level |-> ov,
                  max_size |-> ms, histogram_bins |-> hb,
                  histogram_range |-> hr]
    /\ route' = "metadata"
    /\ pc' = "handle"
    /\ UNCHANGED <<calls, indexes, nodata, tilesize, fetched, tile, mask,
                   ext, rtile, resp>>

\* float(x) if isinstance(x, str) else x, int(x) if isinstance(x, str) else
\* x: the default when the parameter is absent
FloatOr(text, default) == IF text = None THEN default ELSE ToFloat(text)
IntOr(text, default) == IF text = None THEN default ELSE DigitsToInt(text)

\* an optional int or tuple: None stays None
OptInt(text) ==
    IF text = None THEN [given |-> FALSE, v |-> 0]
    ELSE [given |-> TRUE, v |-> DigitsToInt(text)]

\* tuple(map(float, histogram_range.split(",")))
OptRange(text) ==
    IF text = None THEN [given |-> FALSE, v |-> <<>>]
    ELSE [given |-> TRUE,
          v |-> LET w == SplitOn(text, ",", <<>>, <<>>)
                IN  [i \in 1..Len(w) |-> ToFloat(w[i])]]

\* the keyword arguments of lines 134-143
MetadataCall(r) ==
    [fn |-> "metadata", url |-> r.url,
     kw |-> [pmin |-> FloatOr(r.pmin, DefaultPmin),
             pmax |-> FloatOr(r.pmax, DefaultPmax),
             nodata |-> NormNodata(r.nodata),
             indexes |-> NormIndexes(r.indexes),
             overview_level |-> OptInt(r.overview_level),
             histogram_bins |-> IntOr(r.histogram_bins, DefaultHistogramBins),
             histogram_range |-> OptRange(r.histogram_range)]]

\* max_size = int(max_size) if isinstance(max_size, str) else max_size
MetadataMaxSize(r) == IntOr(r.max_size, DefaultMaxSize)

\* lines 113-144
MetadataHandle ==
    /\ route = "metadata" /\ pc = "handle"
    /\ calls' = Append(calls, MetadataCall(req))
    /\ \/ \E info \in MetadataInfos :
            /\ fetched' = [info |-> info]
            /\ resp' = [status |-> "OK", mime |-> <<"application", "json">>,
                        body |-> [kind |-> "metadata", info |-> info]]
            /\ pc' = "done"
       \/ /\ Raise("metadata cannot be read")
          /\ UNCHANGED fetched
    /\ UNCHANGED <<route, req, indexes, nodata, tilesize, tile, mask, ext,
                   rtile>>

\* the response is handed to the routing shell; nothing is kept
Finish ==
    /\ pc = "done"
    /\ route' = "none"
    /\ pc' = "idle"
    /\ req' = [none |-> TRUE]
    /\ calls' = <<>>
    /\ indexes' = NoIndexes
    /\ nodata' = NoNodata
    /\ tilesize' = 0
    /\ fetched' = NoFetch
    /\ tile' = NoTile
    /\ mask' = NoMask
    /\ ext' = NoExt
    /\ rtile' = NoTile
    /\ resp' = NoResp

Next ==
    \/ TileRequest
    \/ TileValidate
    \/ TileFetch
    \/ TileDefaultExt
    \/ TilePostprocess
    \/ TileEncode
    \/ TilejsonRequest
    \/ TilejsonHandle
    \/ WmtsRequest
    \/ WmtsHandle
    \/ PointRequest
    \/ PointHandle
    \/ MetadataRequest
    \/ MetadataHandle
    \/ Finish

Spec == Init /\ [][Next]_vars

(***************************************************************************)
(* postprocess (utils.py) called on its own, statement by statement.  The  *)
(* caller's array is `tile`, the array bound to the function's local name  *)
(* is `rtile` (the same array until an assignment rebinds the name), the   *)
(* arguments as passed are kept in `fetched`, and `calls` logs the stages  *)
(* that have run.  The caller then passes the returned tile once more,     *)
(* with the same mask and options.                                         *)
(***************************************************************************)
PostSeeds == TileSeeds \cup {250}

\* the tiles postprocess is called with: values below 0, inside 0..255 and
\* above 255
PostTiles ==
    {[dtype |-> "int16",
      bands |-> [b \in 1..nb |->
                   [i \in 1..NPix |-> seed + 3 * (i - 1) + (b - 1)]]] :
        nb \in 1..MaxBands, seed \in PostSeeds}

\* rescale strings: one pair, two pairs, a reversed pair, an odd number of
\* values, a word that is no number
PostRescales ==
    {None, <<>>,
     <<"0", ",", "1", "0">>,
     <<"0", ",", "2", "5", "5">>,
     <<"0", ",", "2", "5", "5", ",", "0", ",", "1", "0">>,
     <<"-", "2", ",", "4", ",", "0", ",", "2", "5", "5">>,
     <<"1", "0", ",", "0">>,
     <<"0">>,
     <<"a", ",", "1">>}

\* colour formulas, one letter per operation
PostColorFormulas == {None, <<>>, <<"G">>, <<"G", "S">>, <<"S", "G">>}

InitPost ==
    /\ route = "postprocess"
    /\ pc = "if_rescale"
    /\ \E rs \in PostRescales, cf \in PostColorFormulas :
          req = [rescale |-> rs, color_formula |-> cf, round |-> 1]
    /\ calls = <<>>
    /\ indexes = NoIndexes
    /\ nodata = NoNodata
    /\ tilesize = 0
    /\ \E t \in PostTiles, m \in Masks :
          /\ fetched = [tile |-> t, mask |-> m]
          /\ tile = t
          /\ mask = m
          /\ rtile = t
    /\ ext = NoExt
    /\ resp = NoResp

\* how many stages of one kind have run
Done(fn) == Cardinality({i \in 1..Len(calls) : calls[i].fn = fn})

\* float() raises on a word of the rescale string
FloatRaises(rescale) ==
    LET words == SplitOn(rescale, ",", <<>>, <<>>)
    IN  \E i \in 1..Len(words) : ~IsNumber(words[i])

\* imin, imax = in_range raises, or the range is empty
InRangeRaises(in_range) ==
    \/ Len(in_range) # 2
    \/ in_range[1] = in_range[2]

\* if rescale: ... rescale_arr = ...
PostIfRescale ==
    /\ route = "postprocess" /\ pc = "if_rescale"
    /\ IF ~Truthy(req.rescale) THEN pc' = "if_color" /\ UNCHANGED resp
       ELSE IF FloatRaises(req.rescale) THEN Raise("postprocess failed")
       ELSE pc' = "band" /\ UNCHANGED resp
    /\ UNCHANGED <<route, req, calls, indexes, nodata, tilesize, fetched,
                   tile, mask, ext, rtile>>

\* for bdx in range(tile.shape[0]): tile[bdx] = numpy.where(...)
PostBand ==
    /\ route = "postprocess" /\ pc = "band"
    /\ Done("linear_rescale") < Len(tile.bands)
    /\ LET bdx == Done("linear_rescale") + 1
           in_range == RescaleArr(req.rescale, Len(tile.bands))[bdx]
       IN  IF InRangeRaises(in_range)
           THEN /\ Raise("postprocess failed")
                /\ UNCHANGED <<calls, tile, rtile>>
           ELSE /\ tile' = [tile EXCEPT
                              !.bands[bdx] = RescaleBand(@, mask, in_range)]
                /\ rtile' = tile'
                /\ calls' = Append(calls, [fn |-> "linear_rescale",
                                           band |-> bdx, arg |-> in_range])
                /\ UNCHANGED <<pc, resp>>
    /\ UNCHANGED <<route, req, indexes, nodata, tilesize, fetched, mask, ext>>

\* tile = tile.astype(numpy.uint8): the local name is rebound
PostAstype ==
    /\ route = "postprocess" /\ pc = "band"
    /\ Done("linear_rescale") = Len(tile.bands)
    /\ rtile' = [dtype |-> "uint8", bands |-> AsUint8(tile.bands)]
    /\ calls' = Append(calls, [fn |-> "astype", band |-> 0, arg |-> <<>>])
    /\ pc' = "if_color"
    /\ UNCHANGED <<route, req, indexes, nodata, tilesize, fetched, tile, mask,
                   ext, resp>>

\* if color_formula:
PostIfColor ==
    /\ route = "postprocess" /\ pc = "if_color"
    /\ pc' = IF Truthy(req.color_formula) THEN "clamp" ELSE "return"
    /\ UNCHANGED <<route, req, calls, indexes, nodata, tilesize, fetched,
                   tile, mask, ext, rtile, resp>>

\* tile[tile < 0] = 0, written into the caller's array when the name still
\* refers to it
PostClamp ==
    /\ route = "postprocess" /\ pc = "clamp"
    /\ rtile' = [dtype |-> rtile.dtype, bands |-> ClampNegative(rtile.bands)]
    /\ tile' = IF Done("astype") = 0 THEN rtile' ELSE tile
    /\ calls' = Append(calls, [fn |-> "clamp", band |-> 0, arg |-> <<>>])
    /\ pc' = "ops"
    /\ UNCHANGED <<route, req, indexes, nodata, tilesize, fetched, mask, ext,
                   resp>>

\* the operations of the formula, last first
NextOpReversed(ops, k) == ops[Len(ops) - k]

\* for ops in parse_operations(color_formula): the operation of turn k + 1
NextOp(ops, k) == ops[k + 1]

\* tile = scale_dtype(ops(to_math_type(tile)), numpy.uint8)
PostOp ==
    /\ route = "postprocess" /\ pc = "ops"
    /\ LET op == NextOp(req.color_formula, Done("ops"))
       IN  /\ rtile' = ColorStep(op, rtile)
           /\ calls' = Append(calls, [fn |-> "ops", band |-> 0, arg |-> <<op>>])
    /\ pc' = IF Done("ops") + 1 = Len(req.color_formula) THEN "return" ELSE "ops"
    /\ UNCHANGED <<route, req, indexes, nodata, tilesize, fetched, tile, mask,
                   ext, resp>>

\* return tile
PostReturn ==
    /\ route = "postprocess" /\ pc = "return"
    /\ resp' = [status |-> "OK", mime |-> <<>>,
                body |-> [kind |-> "tile", tile |-> rtile]]
    /\ pc' = "done"
    /\ UNCHANGED <<route, req, calls, indexes, nodata, tilesize, fetched,
                   tile, mask, ext, rtile>>

\* the caller passes the returned tile again, with the same mask, rescale
\* and colour formula
PostAgain ==
    /\ route = "postprocess" /\ pc = "done"
    /\ resp.status = "OK"
    /\ req.round = 1
    /\ req' = [req EXCEPT !.round = 2]
    /\ fetched' = [tile |-> rtile, mask |-> mask]
    /\ tile' = rtile
    /\ calls' = <<>>
    /\ resp' = NoResp
    /\ pc' = "if_rescale"
    /\ UNCHANGED <<route, indexes, nodata, tilesize, mask, ext, rtile>>

NextPost ==
    \/ PostIfRescale
    \/ PostBand
    \/ PostAstype
    \/ PostIfColor
    \/ PostClamp
    \/ PostOp
    \/ PostReturn
    \/ PostAgain

SpecPost == InitPost /\ [][NextPost]_vars

(***************************************************************************)
(* Properties.                                                             *)
(***************************************************************************)
\* How a client reads a query string back: the inverse of quoting, used
\* to state what a query string contains.
\* the character a %XX escape stands for
UnquoteHex(h1, h2) ==
    CASE h1 = "2" /\ h2 = "6" -> "&"
      [] h1 = "3" /\ h2 = "D" -> "="
      [] h1 = "2" /\ h2 = "C" -> ","
      [] h1 = "2" /\ h2 = "5" -> "%"
      [] h1 = "2" /\ h2 = "B" -> "+"
      [] h1 = "2" /\ h2 = "F" -> "/"
      [] h1 = "3" /\ h2 = "B" -> ";"
      [] OTHER -> "?"

\* unquote_plus: what a client decodes a quoted name or value to
RECURSIVE UnquotePlus(_)
UnquotePlus(text) ==
    IF text = <<>> THEN <<>>
    ELSE IF Head(text) = "+" THEN <<" ">> \o UnquotePlus(Tail(text))
    ELSE IF Head(text) = "%" /\ Len(text) >= 3
         THEN <<UnquoteHex(text[2], text[3])>>
              \o UnquotePlus(SubSeq(text, 4, Len(text)))
    ELSE <<Head(text)>> \o UnquotePlus(Tail(text))

\* name=value split at the first "="
RECURSIVE FirstIndexOf(_, _, _)
FirstIndexOf(text, c, i) ==
    IF i > Len(text) THEN 0
    ELSE IF text[i] = c THEN i ELSE FirstIndexOf(text, c, i + 1)

QsPair(piece) ==
    LET k == FirstIndexOf(piece, "=", 1)
    IN  IF k = 0 THEN <<UnquotePlus(piece), <<>>>>
        ELSE <<UnquotePlus(SubSeq(piece, 1, k - 1)),
               UnquotePlus(SubSeq(piece, k + 1, Len(piece)))>>

\* parse_qsl: the (name, value) pairs a client reads from a query string
ParseQs(qs) ==
    IF qs = <<>> THEN <<>>
    ELSE LET pieces == SplitOn(qs, "&", <<>>, <<>>)
         IN  [i \in 1..Len(pieces) |-> QsPair(pieces[i])]

\* what an XML reader makes of the escaped text: "&amp;" is "&"
RECURSIVE XmlUnescapeAmp(_)
XmlUnescapeAmp(text) ==
    IF text = <<>> THEN <<>>
    ELSE IF Len(text) >= 5 /\ SubSeq(text, 1, 5) = <<"&", "a", "m", "p", ";">>
         THEN <<"&">> \o XmlUnescapeAmp(SubSeq(text, 6, Len(text)))
    ELSE <<Head(text)>> \o XmlUnescapeAmp(Tail(text))

\* a parameter that was supplied with a value
Supplied(v) == v # None /\ v # <<>>

\* the calls of the raster collaborator's two tile paths made so far
FetchCalls == {i \in 1..Len(calls) : calls[i].fn \in {"tile", "expression"}}

CallsOf(fn) == {i \in 1..Len(calls) : calls[i].fn = fn}

MsgConflict == "Cannot pass indexes and expression"
MsgMissingUrl == "Missing 'url' parameter"
MsgOutside == "Point is outside the raster bounds"

(* C1: a tile request that supplies both indexes and expr never gets past  *)
(* validation: no collaborator call is made for it, and it ends with the   *)
(* error "Cannot pass indexes and expression".                             *)
C1_ConflictFailsBeforeFetch ==
    (route = "tile" /\ Supplied(req.indexes) /\ Supplied(req.expr)) =>
        /\ calls = <<>>
        /\ pc \in {"validate", "done"}
        /\ pc = "done" => resp = ErrorResp(MsgConflict)

C1_Witness ==
    /\ route = "tile" /\ pc = "done"
    /\ Supplied(req.indexes) /\ Supplied(req.expr) /\ Supplied(req.url)
    /\ resp = ErrorResp(MsgConflict)
    /\ calls = <<>>

(* C2 as stated: a tile request without a url (absent or empty) ends with  *)
(* the error "Missing 'url' parameter" and no collaborator call.           *)
C2_MissingUrlAlwaysReported ==
    (route = "tile" /\ pc = "done" /\ ~Supplied(req.url)) =>
        /\ resp = ErrorResp(MsgMissingUrl)
        /\ calls = <<>>

(* C2 amended: a tile request without a url (absent or empty) never gets   *)
(* past validation and makes no collaborator call; it ends with the error  *)
(* "Missing 'url' parameter" unless both indexes and expr are supplied,    *)
(* and then with "Cannot pass indexes and expression", the check made      *)
(* first.                                                                  *)
C2_MissingUrlFailsBeforeFetch ==
    (route = "tile" /\ ~Supplied(req.url)) =>
        /\ calls = <<>>
        /\ pc \in {"validate", "done"}
        /\ pc = "done" =>
              resp = ErrorResp(IF Supplied(req.indexes) /\ Supplied(req.expr)
                               THEN MsgConflict ELSE MsgMissingUrl)

C2_Witness ==
    /\ route = "tile" /\ pc = "done"
    /\ req.url = <<>>
    /\ Supplied(req.indexes) /\ ~Supplied(req.expr)
    /\ resp = ErrorResp(MsgMissingUrl)
    /\ calls = <<>>

\* every entry of the fetched mask is valid
FetchedFullyValid == \A i \in 1..Len(fetched.mask) : fetched.mask[i] # 0

(* C3: for a tile request without an extension the format is jpg when      *)
(* every entry of the fetched mask is valid and png otherwise; it is fixed *)
(* before post-processing from the mask the fetch returned, the mask and   *)
(* the choice stay as they are through post-processing and encoding, and   *)
(* a successful response is a JPEG labelled image/jpg or a PNG labelled    *)
(* image/png accordingly.                                                  *)
C3_DefaultExtFromFetchedMask ==
    (route = "tile" /\ req.ext = NoExt /\ pc \in {"post", "encode", "done"}
        /\ fetched # NoFetch) =>
        LET want == IF FetchedFullyValid THEN "jpg" ELSE "png"
        IN  /\ ext = want
            /\ mask = fetched.mask
            /\ (pc = "done" /\ resp.status = "OK") =>
                  /\ resp.mime = <<"image", want>>
                  /\ resp.body.img_format =
                        (IF want = "jpg" THEN "jpeg" ELSE "png")

C3_Witness ==
    /\ route = "tile" /\ pc = "done" /\ req.ext = NoExt
    /\ Supplied(req.rescale) /\ Supplied(req.color_formula)
    /\ resp.status = "OK"
    /\ ~FetchedFullyValid
    /\ \E i \in 1..Len(fetched.mask) : fetched.mask[i] # 0
    /\ resp.mime = <<"image", "png">>
    /\ rtile # fetched.tile

TableExts == {"jpg", "png", "pngraw", "webp", "tif", "npy"}

(* C4: for a tile request with an extension of the table, the image is     *)
(* written with the driver the table gives the extension and a successful  *)
(* response carries the MIME type the table gives it.                      *)
C4_TableDecidesDriverAndMime ==
    (route = "tile" /\ pc = "done" /\ req.ext \in TableExts) =>
        /\ \A i \in CallsOf("array_to_image") :
              /\ req.ext \in DOMAIN drivers
              /\ DriverKey(calls[i].img_format) = DriverKey(drivers[req.ext])
        /\ resp.status = "OK" => resp.mime = mimetype[req.ext]

(* C5: every call of the raster collaborator, on the index path or on the  *)
(* expression path, passes tilesize = scale * 256, a positive multiple of  *)
(* 256.                                                                    *)
C5_TilesizePositiveMultiple ==
    route = "tile" =>
        \A i \in FetchCalls :
            /\ calls[i].tilesize = req.scale * 256
            /\ calls[i].tilesize > 0
            /\ calls[i].tilesize % 256 = 0

\* the transformed point lies strictly between the bounds on both axes
StrictlyInside ==
    /\ fetched.bounds.left < fetched.x /\ fetched.x < fetched.bounds.right
    /\ fetched.bounds.bottom < fetched.y /\ fetched.y < fetched.bounds.top

Amp == <<"&", "a", "m", "p", ";">>

\* every "&" of the text starts an "&amp;"
AmpersandsEscaped(text) ==
    \A i \in 1..Len(text) :
        text[i] = "&" => (i + 4 <= Len(text) /\ SubSeq(text, i, i + 4) = Amp)

\* the parameter names a reader of the document finds in the query string
QsNames(text) == NamesOf(ParseQs(XmlUnescapeAmp(text)))

(* C7: the query string handed to the capabilities template has no         *)
(* parameter named SERVICE or REQUEST, and each of its ampersands starts   *)
(* an "&amp;".                                                             *)
C7_WmtsQueryStringSafe ==
    route = "wmts" =>
        \A i \in CallsOf("wmts_template") :
            /\ AmpersandsEscaped(calls[i].query_string)
            /\ K_SERVICE \notin QsNames(calls[i].query_string)
            /\ K_REQUEST \notin QsNames(calls[i].query_string)

C7_Witness ==
    /\ route = "wmts" /\ pc = "done" /\ resp.status = "OK"
    /\ NamesOf(req.kwargs) = {K_REQUEST, <<"a", "&", "b">>}
    /\ req.url = UrlAmp
    /\ CallsOf("wmts_template") # {}

\* the text before the query string of the tile URL template
TilejsonPrefix ==
    AppHost
    \o <<"/", "{", "z", "}", "/", "{", "x", "}", "/", "{", "y", "}", "@">>
    \o IntToStr(IF req.tile_scale = None THEN 1
                ELSE DigitsToInt(req.tile_scale))
    \o <<"x">>
    \o (IF Supplied(req.tile_format) THEN <<".">> \o req.tile_format ELSE <<>>)
    \o <<"?">>

(* C8: the tile URL template of a tilejson response is the host,           *)
(* "/{z}/{x}/{y}@", the tile scale, "x", then "." and the tile format      *)
(* exactly when a tile format was requested, then "?" and a query string   *)
(* that decodes to the request's other parameters, each once with its      *)
(* value, in their order, followed by url.                                 *)
C8_TilejsonUrlTemplate ==
    (route = "tilejson" /\ pc = "done" /\ resp.status = "OK") =>
        LET u == resp.body.tiles[1]
            n == Len(TilejsonPrefix)
        IN  /\ Len(resp.body.tiles) = 1
            /\ Len(u) >= n
            /\ SubSeq(u, 1, n) = TilejsonPrefix
            /\ ParseQs(SubSeq(u, n + 1, Len(u)))
                  = req.kwargs \o <<<<K_url, req.url>>>>

C8_Witness ==
    /\ route = "tilejson" /\ pc = "done" /\ resp.status = "OK"
    /\ Len(req.kwargs) = 2
    /\ req.kwargs[1] = <<<<"a", "&", "b">>, <<"-", "1", ",", "1", " ", "=">>>>
    /\ req.kwargs[2][1] = K_SERVICE
    /\ req.tile_format = <<"j", "p", "g">>
    /\ req.tile_scale = <<"2">>
    /\ req.url = UrlAmp

\* the shape of a tile: bands, pixels
ShapeOf(t) == <<Len(t.bands), IF t.bands = <<>> THEN 0 ELSE Len(t.bands[1])>>

(* C9: the payload of a successful npy response decodes to the mask the    *)
(* fetch returned and to a tile of the fetched tile's shape, with the      *)
(* fetched values when neither rescale nor color_formula is given; no      *)
(* image is encoded for it.                                                *)
C9_NpyRoundTrip ==
    (route = "tile" /\ pc = "done" /\ req.ext = "npy" /\ resp.status = "OK") =>
        LET got == NpyLoad(resp.body.payload)
        IN  /\ resp.body.kind = "npy"
            /\ resp.mime = <<"application", "x-binary">>
            /\ got.mask = fetched.mask
            /\ ShapeOf(got.tile) = ShapeOf(fetched.tile)
            /\ (~Supplied(req.rescale) /\ ~Supplied(req.color_formula)) =>
                  got.tile = fetched.tile
            /\ CallsOf("array_to_image") = {}

C9_Witness ==
    /\ route = "tile" /\ pc = "done" /\ req.ext = "npy" /\ resp.status = "OK"
    /\ ~Supplied(req.rescale) /\ ~Supplied(req.color_formula)
    /\ Supplied(req.color_map)
    /\ Len(fetched.tile.bands) = 2
    /\ ~FetchedFullyValid
    /\ NpyLoad(resp.body.payload).tile = fetched.tile

(* C10: the metadata call receives pmin, pmax, the histogram bin count,    *)
(* the histogram range, the nodata override, the band subset and the       *)
(* maximum raster size as the request gave them (or their defaults), and   *)
(* the collaborator's result is the response.                              *)
C10_MetadataForwardsParameters ==
    route = "metadata" =>
        /\ \A i \in CallsOf("metadata") :
              LET kw == calls[i].kw
              IN  /\ kw.pmin = FloatOr(req.pmin, DefaultPmin)
                  /\ kw.pmax = FloatOr(req.pmax, DefaultPmax)
                  /\ kw.histogram_bins
                        = IntOr(req.histogram_bins, DefaultHistogramBins)
                  /\ kw.histogram_range = OptRange(req.histogram_range)
                  /\ kw.nodata = NormNodata(req.nodata)
                  /\ kw.indexes = NormIndexes(req.indexes)
                  /\ req.max_size # None =>
                        /\ "max_size" \in DOMAIN kw
                        /\ kw.max_size = DigitsToInt(req.max_size)
        /\ (pc = "done" /\ resp.status = "OK") =>
              resp.body.info = fetched.info

(* C12: a tile request whose extension is not one of jpg, png, pngraw,     *)
(* webp, tif, npy never gets an OK response and never gets a MIME type     *)
(* made from its extension; once it is past the fetch and the              *)
(* post-processing it ends in the encode error.                            *)
C12_UnsupportedExtRejected ==
    (route = "tile" /\ req.ext \notin TableExts \cup {NoExt}) =>
        /\ resp.status # "OK"
        /\ resp.mime # <<"image", req.ext>>
        /\ (pc = "done" /\ rtile # NoTile) =>
              resp = ErrorResp("image encoding failed")

\* the request got past lines 293-297
PassedValidation ==
    /\ route = "tile"
    /\ pc \notin {"validate", "fetch"}
    /\ ~(resp.status = "ERROR"
         /\ resp.body.errorMessage \in {MsgConflict, MsgMissingUrl})

(* C15: a tile request that passes validation makes exactly one fetch; it  *)
(* is the expression call exactly when an expression was supplied, and     *)
(* otherwise the index call, which receives the requested indexes in the   *)
(* order given with duplicates kept, or no indexes when none were          *)
(* requested; supplied indexes always reach the collaborator.              *)
C15_OneFetchOnTheRequestedPath ==
    PassedValidation =>
        /\ Cardinality(FetchCalls) = 1
        /\ \A i \in FetchCalls :
              /\ calls[i].fn = "expression" <=> Supplied(req.expr)
              /\ calls[i].fn = "tile" =>
                    calls[i].indexes
                        = IF Supplied(req.indexes)
                          THEN [given |-> TRUE, v |-> IndexesTuple(req.indexes)]
                          ELSE NoIndexes
              /\ Supplied(req.indexes) =>
                    /\ calls[i].fn = "tile"
                    /\ calls[i].indexes.v = <<2, 1, 1>>

\* the (min, max) pairs a rescale string spells, and the one meant for
\* band b of nbands: pair b when there are as many pairs as bands, the
\* first pair otherwise
PairsOf(rescale) ==
    LET words == SplitOn(rescale, ",", <<>>, <<>>)
    IN  Chunks2([i \in 1..Len(words) |-> ToFloat(words[i])])

PairFor(rescale, nbands, b) ==
    IF Len(PairsOf(rescale)) = nbands
    THEN PairsOf(rescale)[b]
    ELSE PairsOf(rescale)[1]

\* postprocess has returned from a call with a rescale and no colour formula
RescaleOnlyReturned ==
    /\ route = "postprocess" /\ pc = "done" /\ resp.status = "OK"
    /\ Supplied(req.rescale) /\ ~Supplied(req.color_formula)

(* C11 as stated: after postprocess with a rescale string has returned,    *)
(* calling it again on the returned tile with the same mask and the same   *)
(* rescale string returns a tile equal to the one passed in.               *)
C11_RescaleIdempotent ==
    (RescaleOnlyReturned /\ req.round = 2) => resp.body.tile = fetched.tile

\* every band is rescaled from the range 0..255
RangeIsOutputRange ==
    \A b \in 1..Len(fetched.tile.bands) :
        PairFor(req.rescale, Len(fetched.tile.bands), b) = <<0, 255>>

(* C11 amended: when the pair used for every band is (0, 255), calling     *)
(* postprocess again on the returned tile with the same mask and the same  *)
(* rescale string returns a tile equal to the one passed in.               *)
C11_RescaleIdempotentOnOutputRange ==
    (RescaleOnlyReturned /\ req.round = 2 /\ RangeIsOutputRange) =>
        resp.body.tile = fetched.tile

\* a second call has returned for a two-pair string broadcast to one band,
\* with an invalid pixel and a valid one strictly inside 0..255
C11_Witness ==
    /\ RescaleOnlyReturned /\ req.round = 2 /\ RangeIsOutputRange
    /\ Len(PairsOf(req.rescale)) # Len(fetched.tile.bands)
    /\ \E i \in 1..Len(mask) : mask[i] = 0
    /\ \E i \in 1..Len(mask) :
          mask[i] # 0 /\ resp.body.tile.bands[1][i] \notin {0, 255}
    /\ resp.body.tile = fetched.tile

\* the linear map of v from [lo, hi] to [0, 255], clamped to [0, 255], as
\* the integer a uint8 pixel holds
LinearMapClamped(v, lo, hi) ==
    IF v <= lo THEN 0
    ELSE IF v >= hi THEN 255
    ELSE ((v - lo) * 255) \div (hi - lo)

(* C13: in the tile postprocess returns for a rescale string, band b uses  *)
(* pair b when there are as many pairs as bands and the first pair         *)
(* otherwise; a pixel whose mask entry is invalid is 0, a pixel whose mask *)
(* entry is valid is the linear map of its input from [min, max] to        *)
(* [0, 255] clamped to [0, 255], and every value lies in 0..255.           *)
C13_RescaleMapsValidPixels ==
    RescaleOnlyReturned =>
        \A b \in 1..Len(fetched.tile.bands) :
            \A i \in 1..Len(fetched.tile.bands[b]) :
                LET pair == PairFor(req.rescale, Len(fetched.tile.bands), b)
                    out == resp.body.tile.bands[b][i]
                IN  /\ out \in 0..255
                    /\ fetched.mask[i] = 0 => out = 0
                    /\ (fetched.mask[i] # 0 /\ pair[1] < pair[2]) =>
                          out = LinearMapClamped(fetched.tile.bands[b][i],
                                                 pair[1], pair[2])

\* a two-band tile rescaled with one pair per band, the pairs different,
\* with an invalid pixel and a valid pixel mapped strictly inside 0..255
C13_Witness ==
    /\ RescaleOnlyReturned /\ req.round = 1
    /\ Len(fetched.tile.bands) = 2
    /\ Len(PairsOf(req.rescale)) = 2
    /\ PairFor(req.rescale, 2, 1) # PairFor(req.rescale, 2, 2)
    /\ PairFor(req.rescale, 2, 1)[1] < PairFor(req.rescale, 2, 1)[2]
    /\ \E i \in 1..Len(mask) : mask[i] = 0
    /\ \E i \in 1..Len(mask) :
          /\ mask[i] # 0
          /\ resp.body.tile.bands[1][i]
                \notin {0, 255, fetched.tile.bands[1][i]}

\* the stages that have run, in order, and the colour operations among them
Stages == [i \in 1..Len(calls) |-> calls[i].fn]

OpsRun ==
    LET IsOp(c) == c.fn = "ops"
        ran == SelectSeq(calls, IsOp)
    IN  [k \in 1..Len(ran) |-> ran[k].arg[1]]

\* the stages the options ask for, in the fixed order
StagesAsked ==
    (IF Supplied(req.rescale)
     THEN [b \in 1..Len(fetched.tile.bands) |-> "linear_rescale"]
          \o <<"astype">>
     ELSE <<>>)
    \o (IF Supplied(req.color_formula)
        THEN <<"clamp">> \o [k \in 1..Len(req.color_formula) |-> "ops"]
        ELSE <<>>)

OpsAsked ==
    IF Supplied(req.color_formula) THEN req.color_formula ELSE <<>>

IsPrefix(a, b) == Len(a) <= Len(b) /\ a = SubSeq(b, 1, Len(a))

(* C14: the stages of postprocess run in the fixed order: the rescale of   *)
(* every band and the cast, then, only with a colour formula, the clamp of *)
(* negative values and the colour operations in the order of the formula;  *)
(* with neither option the tile is returned as it was passed, and the mask *)
(* is never changed.                                                       *)
C14_StagesInFixedOrder ==
    route = "postprocess" =>
        /\ mask = fetched.mask
        /\ IsPrefix(Stages, StagesAsked)
        /\ IsPrefix(OpsRun, OpsAsked)
        /\ (pc = "done" /\ resp.status = "OK") =>
              /\ Stages = StagesAsked
              /\ OpsRun = OpsAsked
              /\ resp.body.tile
                    = Postprocess(fetched.tile, fetched.mask, req.rescale,
                                  req.color_formula)
              /\ (~Supplied(req.rescale) /\ ~Supplied(req.color_formula)) =>
                    /\ resp.body.tile = fetched.tile
                    /\ tile = fetched.tile

\* a two-band tile with negative values went through the rescale and two
\* colour operations whose order matters for the result
C14_Witness ==
    /\ route = "postprocess" /\ pc = "done" /\ resp.status = "OK"
    /\ req.round = 1
    /\ Supplied(req.rescale)
    /\ req.color_formula = <<"S", "G">>
    /\ Len(fetched.tile.bands) = 2
    /\ \E i \in 1..Len(mask) : mask[i] # 0 /\ fetched.tile.bands[1][i] < 0
    /\ Stages = <<"linear_rescale", "linear_rescale", "astype", "clamp",
                  "ops", "ops">>
    /\ resp.body.tile
          # Postprocess(fetched.tile, fetched.mask, req.rescale, <<"G", "S">>)

====
